---- MODULE Spec2Model ----
(***************************************************************************)
(* Model of scripts/extract_kb_clinical_guides.py: the text normaliser     *)
(* clean_text, the split-point search find_split, the page-aware chunker   *)
(* chunk_pages and the extraction dispatcher process_document.             *)
(*                                                                         *)
(* A Python str is a sequence of one-character strings.  Characters that   *)
(* TLA+ cannot write literally are named (NBSP, SOH, VT).  A Python None   *)
(* page number is NoPage, a None error kind or method is None.             *)
(***************************************************************************)
EXTENDS Integers, Sequences, FiniteSets, TLC

\* ------------------------------------------------------------------------
\* Bounds of the model.
\* ------------------------------------------------------------------------
\* The chunker's two size thresholds.  The program sets them to 1200 and 180
\* (lines 16-17); the model keeps every comparison against them and scales
\* the values so that texts longer than MAX_CHARS can be enumerated.
MAX_CHARS == 6
MIN_CHARS == 2
\* Longest page sequence handed to chunk_pages.
MaxPages == 3
\* Longest total length of the raw pages of one page sequence.
MaxTotalLen == 8
\* Longest input string of clean_text in SpecClean.
MaxCleanLen == 4
\* Longest standard output of pdftotext.
MaxOutLen == 3
\* Most images pdftoppm produces.
MaxImages == 2
\* Most paragraphs of a DOCX document.
MaxParas == 3

\* ------------------------------------------------------------------------
\* Characters and strings.
\* ------------------------------------------------------------------------
NBSP == "\\u00a0"
SOH == "\\x01"
VT == "\\x0b"
FF == "\f"
NoPage == 0
None == "None"

\* str.isspace() on the characters of the model: space, \t, \n, \r, \f,
\* \x0b and the non-breaking space are whitespace; \x01 is not.
IsSpace(c) == c \in {" ", "\t", "\n", "\r", FF, VT, NBSP}

\* The class [\x00-\x08\x0b\x0c\x0e-\x1f] of line 38.
IsControl(c) == c \in {SOH, VT, FF}

\* Strings over alphabet A of length at most n.
Str(A, n) == UNION {[1..k -> A] : k \in 0..n}

\* s[a:b] for 0 <= a, clipped like a Python slice.
Slice(s, a, b) == SubSeq(s, a + 1, IF b > Len(s) THEN Len(s) ELSE b)

\* str.replace(old, new) for a one-character old and new.
Replace(s, old, new) == [i \in 1..Len(s) |-> IF s[i] = old THEN new ELSE s[i]]

RECURSIVE LStrip(_)
LStrip(s) == IF s # <<>> /\ IsSpace(Head(s)) THEN LStrip(Tail(s)) ELSE s

RECURSIVE RStrip(_)
RStrip(s) ==
    IF s # <<>> /\ IsSpace(s[Len(s)]) THEN RStrip(SubSeq(s, 1, Len(s) - 1)) ELSE s

\* str.strip()
Strip(s) == LStrip(RStrip(s))

\* The characters of s at the positions from i on that are not in dropped,
\* in order.
RECURSIVE Without(_, _, _)
Without(s, dropped, i) ==
    IF i > Len(s) THEN <<>>
    ELSE (IF i \in dropped THEN <<>> ELSE <<s[i]>>) \o Without(s, dropped, i + 1)

\* re.sub(r"[ ]{2,}", " ", s): every maximal run of two or more spaces
\* becomes one space, i.e. a space that follows a space is dropped.
CollapseSpaces(s) ==
    Without(s, {i \in 2..Len(s) : s[i] = " " /\ s[i - 1] = " "}, 1)

\* TRUE iff position i of s is a space of a run of spaces that directly
\* follows a newline.
RECURSIVE AfterNewline(_, _)
AfterNewline(s, i) ==
    /\ i > 1
    /\ s[i] = " "
    /\ \/ s[i - 1] = "\n"
       \/ AfterNewline(s, i - 1)

\* re.sub(r"\n[ ]+", "\n", s): the spaces that follow a newline are dropped.
DropIndent(s) ==
    Without(s, {i \in 1..Len(s) : AfterNewline(s, i)}, 1)

\* re.sub(r"\n{3,}", "\n\n", s): a run of three or more newlines becomes
\* two, i.e. a newline that follows two newlines is dropped.
CollapseNewlines(s) ==
    Without(s, {i \in 3..Len(s) : s[i] = "\n" /\ s[i - 1] = "\n" /\ s[i - 2] = "\n"}, 1)

\* re.sub(r"[\x00-\x08\x0b\x0c\x0e-\x1f]", " ", s)
BlankControls(s) == [i \in 1..Len(s) |-> IF IsControl(s[i]) THEN " " ELSE s[i]]

\* clean_text, lines 30-39, in the order of the source: the control
\* characters are blanked after the runs of spaces were collapsed.
clean_text(value) ==
    IF value = <<>> THEN <<>>
    ELSE LET t1 == Replace(Replace(value, "\r", "\n"), "\t", " ")
             t2 == Replace(t1, NBSP, " ")
             t3 == CollapseSpaces(t2)
             t4 == DropIndent(t3)
             t5 == CollapseNewlines(t4)
             t6 == BlankControls(t5)
         IN  Strip(t6)

\* ------------------------------------------------------------------------
\* find_split, lines 42-48.
\* ------------------------------------------------------------------------
tokens ==
    << <<"\n", "\n">>, <<"\n">>, <<".", " ">>, <<";", " ">>, <<":", " ">>,
       <<",", " ">>, <<" ">> >>

\* The 0-based positions at which token occurs in s wholly inside s[start:end].
Occurrences(s, token, start, end) ==
    LET stop == IF end > Len(s) THEN Len(s) ELSE end
    IN  {i \in start..(stop - Len(token)) : SubSeq(s, i + 1, i + Len(token)) = token}

\* str.rfind(token, start, end): the highest such position, or -1.
RFind(s, token, start, end) ==
    LET occ == Occurrences(s, token, start, end)
    IN  IF occ = {} THEN -1 ELSE CHOOSE i \in occ : \A j \in occ : j <= i

\* Line 46 without its threshold: any position found is accepted.
Qualifies_Any(idx) == idx >= 0

\* Line 46: the position found is accepted.
Qualifies(idx) == idx >= MIN_CHARS

RECURSIVE FindSplitFrom(_, _)
FindSplitFrom(segment, k) ==
    IF k > Len(tokens) THEN MAX_CHARS
    ELSE LET idx == RFind(segment, tokens[k], 0, MAX_CHARS)
         IN  IF Qualifies(idx) THEN idx + Len(tokens[k])
             ELSE FindSplitFrom(segment, k + 1)

\* find_split finding no place to split: the text is cut at 0.
find_split_Stuck(segment) == 0

\* find_split, lines 42-48.
find_split(segment) == FindSplitFrom(segment, 1)

\* ------------------------------------------------------------------------
\* chunk_pages, lines 51-112.  The locals of the call are the fields of a
\* frame; pc is the position of the call:
\*   "for"   at the head of the for loop of line 56,
\*   "while" at the head of the while loop of line 65,
\*   "after" at line 89, behind the while loop,
\*   "done"  after the return of line 112.
\* ------------------------------------------------------------------------
Chunk(index, page, content) ==
    [chunk_index |-> index, page_number |-> page, content |-> content, status |-> "ok"]

\* Lines 52-55.
ChunkerStart ==
    [pc |-> "for", page_number |-> 0, carry |-> <<>>, carry_page |-> NoPage,
     text |-> <<>>, page_for_chunk |-> NoPage, chunks |-> <<>>, chunk_index |-> 0]

\* Line 60.
Combine(carry, page_text) ==
    IF carry = <<>> THEN page_text ELSE carry \o <<"\n", "\n">> \o page_text

\* Line 61.
PageForChunk(carry_page, page_number) ==
    IF carry_page # NoPage THEN carry_page ELSE page_number

\* Lines 56-64: the next page is taken; an empty page is skipped.
ForPage(f, pages) ==
    LET n == f.page_number + 1
        page_text == clean_text(pages[n])
    IN  IF page_text = <<>> THEN [f EXCEPT !.page_number = n]
        ELSE [f EXCEPT !.page_number = n,
                       !.page_for_chunk = PageForChunk(f.carry_page, n),
                       !.carry = <<>>,
                       !.carry_page = NoPage,
                       !.text = Combine(f.carry, page_text),
                       !.pc = "while"]

\* Lines 65-69: the while loop is left, through its condition or through the
\* break of the text that fits.
WhileBreak(f) ==
    IF f.text = <<>> THEN [f EXCEPT !.pc = "after"]
    ELSE [f EXCEPT !.carry = f.text, !.carry_page = f.page_for_chunk, !.pc = "after"]

\* Lines 81, 90 and 105: chunk_index += 1.
NextIndex_Stale(chunk_index) == chunk_index

NextIndex(chunk_index) == chunk_index + 1

\* Line 76 without its test: no piece is held back.
HeldBack_Never(piece, text) == FALSE

\* Line 76: the piece is held back as carry.
HeldBack(piece, text) == Len(piece) < MIN_CHARS /\ text # <<>>

\* Line 88: the page of the chunks that follow an emitted chunk.
PageAfterEmit(page_for_chunk, page_number) == page_number

\* Lines 70-88: one iteration that splits the text.
WhileSplit(f) ==
    LET head == Slice(f.text, 0, MAX_CHARS)
        split_at == find_split(head)
        piece == Strip(Slice(f.text, 0, split_at))
        text == LStrip(Slice(f.text, split_at, Len(f.text)))
    IN  IF piece = <<>> THEN [f EXCEPT !.text = text]
        ELSE IF HeldBack(piece, text)
        THEN [f EXCEPT !.text = text,
                       !.carry = piece,
                       !.carry_page =
                           IF f.carry_page = NoPage THEN f.page_for_chunk
                           ELSE f.carry_page]
        ELSE [f EXCEPT !.text = text,
                       !.chunk_index = NextIndex(f.chunk_index),
                       !.chunks = Append(f.chunks,
                           Chunk(NextIndex(f.chunk_index), f.page_for_chunk, piece)),
                       !.page_for_chunk =
                           PageAfterEmit(f.page_for_chunk, f.page_number)]

\* Lines 89-98: a carry of MAX_CHARS characters is emitted at once.
AfterWhile(f) ==
    IF f.carry # <<>> /\ Len(f.carry) >= MAX_CHARS
    THEN [f EXCEPT !.chunk_index = NextIndex(f.chunk_index),
                   !.chunks = Append(f.chunks,
                       Chunk(NextIndex(f.chunk_index),
                             IF f.carry_page # NoPage THEN f.carry_page
                             ELSE f.page_number,
                             Strip(f.carry))),
                   !.carry = <<>>,
                   !.carry_page = NoPage,
                   !.pc = "for"]
    ELSE [f EXCEPT !.pc = "for"]

\* Line 102: the leftover is appended to the last chunk.
Absorbed(chunks, carry_text) == chunks # <<>> /\ Len(carry_text) < MIN_CHARS

\* Line 108 with the page of the carry forgotten: the final chunk is put on
\* the first page.
FinalPage_First(carry_page, pages) == 1

\* Line 108: the page of the final chunk.
FinalPage(carry_page, pages) ==
    IF carry_page # NoPage THEN carry_page
    ELSE IF Len(pages) # 0 THEN Len(pages) ELSE 1

\* Line 103 with the leftover written over the content of the chunk.
Extended_Overwrite(content, carry_text) == carry_text

\* Line 103: the content of the last chunk with the leftover appended.
Extended(content, carry_text) == Strip(content \o <<"\n", "\n">> \o carry_text)

\* Lines 99-112: the end of the stream.
EndOfStream(f, pages) ==
    LET carry_text == Strip(f.carry)
        n == Len(f.chunks)
    IN  IF f.carry = <<>> \/ carry_text = <<>> THEN [f EXCEPT !.pc = "done"]
        ELSE IF Absorbed(f.chunks, carry_text)
        THEN [f EXCEPT !.chunks[n].content = Extended(f.chunks[n].content, carry_text),
                       !.pc = "done"]
        ELSE [f EXCEPT !.chunk_index = NextIndex(f.chunk_index),
                       !.chunks = Append(f.chunks,
                           Chunk(NextIndex(f.chunk_index), FinalPage(f.carry_page, pages),
                                 carry_text)),
                       !.pc = "done"]

\* One step of the call.
ChunkerStep(f, pages) ==
    CASE f.pc = "for" /\ f.page_number < Len(pages) -> ForPage(f, pages)
      [] f.pc = "for" /\ f.page_number >= Len(pages) -> EndOfStream(f, pages)
      [] f.pc = "while" /\ (f.text = <<>> \/ Len(f.text) <= MAX_CHARS) -> WhileBreak(f)
      [] f.pc = "while" /\ f.text # <<>> /\ Len(f.text) > MAX_CHARS -> WhileSplit(f)
      [] f.pc = "after" -> AfterWhile(f)
      [] OTHER -> f

RECURSIVE RunChunker(_, _)
RunChunker(f, pages) ==
    IF f.pc = "done" THEN f.chunks ELSE RunChunker(ChunkerStep(f, pages), pages)

\* chunk_pages(pages) as a function of its argument.
chunk_pages(pages) == RunChunker(ChunkerStart, pages)

\* ------------------------------------------------------------------------
\* The extractors, lines 114-215.  The external programs and the DOCX
\* package are the environment: a run of an extractor is described by what
\* the environment does, and the extractor is a function of the run.
\* ------------------------------------------------------------------------
\* str.split(sep) for a one-character sep.
RECURSIVE Split(_, _)
Split(s, sep) ==
    IF \A i \in 1..Len(s) : s[i] # sep THEN <<s>>
    ELSE LET i == CHOOSE j \in 1..Len(s) :
                      s[j] = sep /\ \A h \in 1..(j - 1) : s[h] # sep
         IN  <<SubSeq(s, 1, i - 1)>> \o Split(SubSeq(s, i + 1, Len(s)), sep)

\* sep.join(parts) for a one-character sep.
RECURSIVE Join(_, _)
Join(parts, sep) ==
    IF parts = <<>> THEN <<>>
    ELSE IF Len(parts) = 1 THEN parts[1]
    ELSE parts[1] \o <<sep>> \o Join(Tail(parts), sep)

\* extract_pdf_text, lines 114-127.  run.kind is "ok" (exit status 0),
\* "not_found" (FileNotFoundError) or "failed" (CalledProcessError).
extract_pdf_text(run) ==
    CASE run.kind = "ok" -> [text |-> run.stdout, error |-> None, detail |-> <<>>]
      [] run.kind = "not_found" ->
            [text |-> <<>>, error |-> "pdftotext_not_found", detail |-> <<>>]
      [] run.kind = "failed" ->
            [text |-> run.stdout, error |-> "pdftotext_failed",
             detail |-> Strip(run.stderr)]

\* Lines 145-159: the images from the k-th on are recognised one at a time;
\* run.tesseract[k] is what tesseract does on the k-th image.
RECURSIVE Recognize(_, _, _)
Recognize(run, k, pages) ==
    IF k > run.images THEN [pages |-> pages, error |-> None, detail |-> <<>>]
    ELSE LET t == run.tesseract[k]
         IN  CASE t.kind = "ok" -> Recognize(run, k + 1, Append(pages, t.stdout))
               [] t.kind = "not_found" ->
                     [pages |-> <<>>, error |-> "tesseract_not_found", detail |-> <<>>]
               [] t.kind = "failed" ->
                     [pages |-> <<>>, error |-> "tesseract_failed",
                      detail |-> Strip(t.stderr)]

\* extract_pdf_ocr, lines 130-164.  run.pdftoppm is what pdftoppm does and
\* run.images the number of images it leaves in the temporary directory.
extract_pdf_ocr(run) ==
    CASE run.pdftoppm = "not_found" ->
            [pages |-> <<>>, error |-> "pdftoppm_not_found", detail |-> <<>>]
      [] run.pdftoppm = "failed" ->
            [pages |-> <<>>, error |-> "pdftoppm_failed", detail |-> Strip(run.stderr)]
      [] run.pdftoppm = "ok" ->
            IF run.images = 0
            THEN [pages |-> <<>>, error |-> "pdftoppm_empty",
                  detail |-> <<"pdftoppm produced no images">>]
            ELSE Recognize(run, 1, <<>>)

\* extract_pdf_ocr step by step.  The locals of the call are the fields of a
\* frame; pc is the position of the call:
\*   "enter"     before the with statement of line 132,
\*   "pdftoppm"  at line 134, inside the with block,
\*   "tesseract" at the head of the for loop of line 145,
\*   "exit"      leaving the with block, by a return or by an exception,
\*   "done"      after the return.
\* tmpdir is "absent" before the directory is made, then "exists", then
\* "removed".  run.globbed are the images in the order glob.glob lists them;
\* an image is named by its page, the names pdftoppm gives being padded so
\* that their order is the order of the pages.  attempted are the images
\* tesseract was run on, in order.
OcrReturn(pages, error, detail) == [pages |-> pages, error |-> error, detail |-> detail]

OcrStart(run) ==
    [pc |-> "enter", run |-> run, tmpdir |-> "absent", images |-> <<>>,
     pages |-> <<>>, attempted |-> <<>>,
     returning |-> OcrReturn(<<>>, None, <<>>),
     result |-> OcrReturn(<<>>, None, <<>>)]

\* sorted(names), line 141.
RECURSIVE Insert(_, _)
Insert(sorted, x) ==
    IF sorted = <<>> THEN <<x>>
    ELSE IF x <= Head(sorted) THEN <<x>> \o sorted
    ELSE <<Head(sorted)>> \o Insert(Tail(sorted), x)

RECURSIVE Sorted(_)
Sorted(names) ==
    IF names = <<>> THEN <<>> ELSE Insert(Sorted(Tail(names)), Head(names))

\* Lines 132-133: the temporary directory is made.
OcrEnter(f) == [f EXCEPT !.tmpdir = "exists", !.pc = "pdftoppm"]

\* Lines 134-143, and 160-164 for the exceptions of pdftoppm.
OcrRasterize(f) ==
    CASE f.run.pdftoppm = "not_found" ->
            [f EXCEPT !.returning = OcrReturn(<<>>, "pdftoppm_not_found", <<>>),
                      !.pc = "exit"]
      [] f.run.pdftoppm = "failed" ->
            [f EXCEPT !.returning =
                          OcrReturn(<<>>, "pdftoppm_failed", Strip(f.run.stderr)),
                      !.pc = "exit"]
      [] f.run.pdftoppm = "ok" ->
            IF f.run.globbed = <<>>
            THEN [f EXCEPT !.returning =
                               OcrReturn(<<>>, "pdftoppm_empty",
                                         <<"pdftoppm produced no images">>),
                           !.pc = "exit"]
            ELSE [f EXCEPT !.images = Sorted(f.run.globbed), !.pc = "tesseract"]

\* Lines 155-158 with the failure of an image passed over: the loop goes on
\* to the next image.
AfterFailure_GoOn(f, image, returning) ==
    [f EXCEPT !.attempted = Append(f.attempted, image)]

\* Lines 155-158: the failure of an image returns from the function.
AfterFailure(f, image, returning) ==
    [f EXCEPT !.attempted = Append(f.attempted, image),
              !.returning = returning,
              !.pc = "exit"]

\* Lines 145-159: one iteration of the for loop, or the return behind it.
OcrRecognize(f) ==
    IF Len(f.attempted) >= Len(f.images)
    THEN [f EXCEPT !.returning = OcrReturn(f.pages, None, <<>>), !.pc = "exit"]
    ELSE LET image == f.images[Len(f.attempted) + 1]
             t == f.run.tesseract[image]
         IN  CASE t.kind = "ok" ->
                     [f EXCEPT !.attempted = Append(f.attempted, image),
                               !.pages = Append(f.pages, t.stdout)]
               [] t.kind = "not_found" ->
                     AfterFailure(f, image,
                                  OcrReturn(<<>>, "tesseract_not_found", <<>>))
               [] t.kind = "failed" ->
                     AfterFailure(f, image,
                                  OcrReturn(<<>>, "tesseract_failed", Strip(t.stderr)))

\* The directory is removed only when the block is left without an error.
Cleanup_OnSuccess(tmpdir, returning) ==
    IF returning.error = None THEN "removed" ELSE tmpdir

\* Line 132: TemporaryDirectory.__exit__ removes the directory, however the
\* block is left.
Cleanup(tmpdir, returning) == "removed"

\* The with block is left and the function returns.
OcrExit(f) ==
    [f EXCEPT !.tmpdir = Cleanup(f.tmpdir, f.returning),
              !.result = f.returning,
              !.pc = "done"]

\* Lines 195-202 with the page closed before the paragraph is added: the
\* text of a paragraph that carries a page break opens the next page.
DocxParagraph_BreakFirst(st, para) ==
    LET paragraph == Strip(Join(para.texts, " "))
        combined == Strip(Join(st.current, "\n"))
        closed == IF para.page_break /\ combined # <<>> THEN Append(st.pages, combined)
                  ELSE st.pages
        opened == IF para.page_break THEN <<>> ELSE st.current
    IN  [pages |-> closed,
         current |-> IF paragraph # <<>> THEN Append(opened, paragraph) ELSE opened]

\* Lines 195-202: one paragraph is added to the pages under construction.
\* st.pages are the closed pages, st.current the paragraphs of the open one.
DocxParagraph(st, para) ==
    LET paragraph == Strip(Join(para.texts, " "))
        current == IF paragraph # <<>> THEN Append(st.current, paragraph)
                   ELSE st.current
        combined == Strip(Join(current, "\n"))
    IN  IF para.page_break
        THEN [pages |-> IF combined # <<>> THEN Append(st.pages, combined)
                        ELSE st.pages,
              current |-> <<>>]
        ELSE [pages |-> st.pages, current |-> current]

\* Lines 185-202: the paragraphs in document order.
RECURSIVE DocxWalk(_, _)
DocxWalk(st, paras) ==
    IF paras = <<>> THEN st ELSE DocxWalk(DocxParagraph(st, Head(paras)), Tail(paras))

\* Lines 207-211: the paragraphs that have text, each joined by spaces.
RECURSIVE AllParagraphs(_)
AllParagraphs(paras) ==
    IF paras = <<>> THEN <<>>
    ELSE (IF Head(paras).texts # <<>> THEN <<Join(Head(paras).texts, " ")>> ELSE <<>>)
         \o AllParagraphs(Tail(paras))

\* extract_docx_pages, lines 167-215.  run.kind is "ok" or the exception
\* raised while the package is opened, read and parsed; run.paras are the
\* w:p elements, each with the texts of its non-empty w:t nodes and whether
\* it holds a w:br of type page.
extract_docx_pages(run) ==
    CASE run.kind = "not_found" -> [pages |-> <<>>, error |-> "docx_not_found"]
      [] run.kind = "key_error" -> [pages |-> <<>>, error |-> "document_xml_missing"]
      [] run.kind = "read_error" -> [pages |-> <<>>, error |-> "docx_read_error"]
      [] run.kind = "parse_error" -> [pages |-> <<>>, error |-> "docx_parse_error"]
      [] run.kind = "ok" ->
            LET st == DocxWalk([pages |-> <<>>, current |-> <<>>], run.paras)
                remaining == Strip(Join(st.current, "\n"))
                pgs == IF remaining # <<>> THEN Append(st.pages, remaining)
                       ELSE st.pages
                joined == Strip(Join(AllParagraphs(run.paras), "\n"))
            IN  [pages |-> IF pgs = <<>> /\ joined # <<>> THEN <<joined>> ELSE pgs,
                 error |-> None]

\* ------------------------------------------------------------------------
\* process_document, lines 217-313.  The locals of the call are the fields
\* of a frame; pc is the position of the call:
\*   "start"    at line 230,
\*   "ocr"      at line 263, before the call of extract_pdf_ocr,
\*   "assemble" at line 280,
\*   "done"     after a return (line 247 or 313).
\* ------------------------------------------------------------------------
\* The paths at which os.path.exists finds a file.
FileSystem == {"/kb/guide"}

\* str.lower() on the extensions of the model.
Lower(e) ==
    CASE e = "PDF" -> "pdf"
      [] e = "Docx" -> "docx"
      [] OTHER -> e

\* Line 231 without os.path.exists: any path that is given counts.
FileMissing_PathOnly(path) == path = None \/ path = ""

\* Line 231.
FileMissing(path) == path = None \/ path = "" \/ path \notin FileSystem

ErrorChunk(message) ==
    [chunk_index |-> 1, page_number |-> 1, content |-> message, status |-> "error"]

\* d[key] = v on the errors mapping.
Record(errors, key, v) == (key :> v) @@ errors

\* Lines 218-229 and 248-252.
ProcessStart(meta) ==
    [pc |-> "start",
     file_path |-> meta.file_path,
     extension |-> Lower(IF meta.extension = None THEN "" ELSE meta.extension),
     text |-> <<>>,
     pdf_error |-> None,
     ocr_error |-> None,
     pages |-> <<>>,
     extraction_method |-> None,
     ocr_used |-> FALSE,
     errors |-> <<>>,
     result |-> None]

\* Lines 232-247.
MissingFile(f) ==
    [f EXCEPT !.pc = "done",
              !.result =
                  [file_path |-> f.file_path,
                   extension |-> f.extension,
                   chunks |-> <<ErrorChunk(<<"[ERROR] No se encontro el archivo de origen para procesar.">>)>>,
                   page_count |-> 0,
                   text_length |-> 0,
                   extraction |-> [method |-> None, used_ocr |-> FALSE,
                                   errors |-> ("file" :> "missing")]]]

\* Line 259 without its strip(): any output counts as digital text.
HasText_NoStrip(text) == text # <<>>

\* Line 259: the digital text is used.
HasText(text) == text # <<>> /\ Strip(text) # <<>>

\* Line 260.
SplitPages(text) ==
    SelectSeq(Split(text, FF), LAMBDA page : page # <<>> /\ Strip(page) # <<>>)

\* Lines 255-258 skipped when the output is used: the error of a pdftotext
\* that left text is not recorded.
PdfErrors_Lost(errors, r) ==
    IF r.text # <<>> \/ r.error = None THEN errors
    ELSE Record(errors, "pdftotext", r.error)

\* Lines 255-258: the errors mapping after the pdftotext attempt.
PdfErrors(errors, r) ==
    LET e1 == IF r.error # None THEN Record(errors, "pdftotext", r.error)
              ELSE errors
    IN  IF r.error # None /\ r.detail # <<>>
        THEN Record(e1, "pdftotext_detail", r.detail) ELSE e1

\* Lines 254-261: r is what extract_pdf_text returned.
PdfTextStage(f, r) ==
    LET e2 == PdfErrors(f.errors, r)
    IN  IF HasText(r.text)
        THEN [f EXCEPT !.text = r.text, !.pdf_error = r.error, !.errors = e2,
                       !.pages = SplitPages(r.text),
                       !.extraction_method = "pdftotext",
                       !.pc = "assemble"]
        ELSE [f EXCEPT !.text = r.text, !.pdf_error = r.error, !.errors = e2,
                       !.pc = "ocr"]

\* Lines 264-267 on a fresh mapping: the entries of the earlier stage are
\* dropped.
OcrErrors_Reset(errors, r) ==
    LET e1 == IF r.error # None THEN Record(<<>>, "ocr", r.error) ELSE <<>>
    IN  IF r.error # None /\ r.detail # <<>> THEN Record(e1, "ocr_detail", r.detail)
        ELSE e1

\* Lines 264-267: the errors mapping after the OCR attempt.
OcrErrors(errors, r) ==
    LET e1 == IF r.error # None THEN Record(errors, "ocr", r.error) ELSE errors
    IN  IF r.error # None /\ r.detail # <<>> THEN Record(e1, "ocr_detail", r.detail)
        ELSE e1

\* Line 268: the OCR attempt counts as the method.
OcrSucceeded(pages) == pages # <<>>

\* Lines 263-270: r is what extract_pdf_ocr returned.
OcrStage(f, r) ==
    IF OcrSucceeded(r.pages)
    THEN [f EXCEPT !.pages = r.pages, !.ocr_error = r.error,
                   !.errors = OcrErrors(f.errors, r),
                   !.extraction_method = "tesseract", !.ocr_used = TRUE,
                   !.pc = "assemble"]
    ELSE [f EXCEPT !.pages = r.pages, !.ocr_error = r.error,
                   !.errors = OcrErrors(f.errors, r),
                   !.pc = "assemble"]

\* Lines 272-275: r is what extract_docx_pages returned.
DocxStage(f, r) ==
    [f EXCEPT !.pages = r.pages,
              !.errors = IF r.error # None THEN Record(f.errors, "docx", r.error)
                         ELSE f.errors,
              !.extraction_method = "docx",
              !.pc = "assemble"]

\* Lines 276-279.
UnsupportedStage(f) ==
    [f EXCEPT !.errors =
                  Record(f.errors, "unsupported",
                         <<"Formato no soportado: ",
                           IF f.extension \in {"doc", "rtf"} THEN f.extension
                           ELSE IF f.extension # "" THEN f.extension
                           ELSE "desconocido">>),
              !.pc = "assemble"]

Has(errors, key) == key \in DOMAIN errors

\* Lines 283-295: the message of the synthetic error chunk.
Message(f) ==
    IF Has(f.errors, "unsupported") THEN f.errors["unsupported"]
    ELSE IF f.extension = "pdf"
    THEN IF Has(f.errors, "ocr") THEN <<"[ERROR] OCR fallo: ", f.errors["ocr"]>>
         ELSE IF Has(f.errors, "pdftotext")
         THEN <<"[ERROR] pdftotext fallo: ", f.errors["pdftotext"]>>
         ELSE <<"No se encontro texto legible en el PDF.">>
    ELSE IF f.extension = "docx"
    THEN <<"No se pudo interpretar el DOCX: ",
           IF Has(f.errors, "docx") THEN f.errors["docx"] ELSE "desconocido">>
    ELSE <<"No se pudo extraer texto del documento.">>

\* Line 302 without its filter: every chunk is counted.
Counted_Any(chunk) == TRUE

\* Line 302: the chunks that are counted.
Counted(chunk) == chunk.status = "ok"

\* Line 302.
RECURSIVE TextLength(_)
TextLength(chunks) ==
    IF chunks = <<>> THEN 0
    ELSE (IF Counted(Head(chunks)) THEN Len(Head(chunks).content) ELSE 0)
         + TextLength(Tail(chunks))

\* Lines 281-301 with the error chunk made only when a stage recorded an
\* error.
RecordChunks_OnError(f) ==
    LET chunks == IF f.pages # <<>> THEN chunk_pages(f.pages) ELSE <<>>
    IN  IF chunks = <<>> /\ DOMAIN f.errors # {} THEN <<ErrorChunk(Message(f))>>
        ELSE chunks

\* Lines 281-301: the chunks of the record.
RecordChunks(f) ==
    LET chunks == IF f.pages # <<>> THEN chunk_pages(f.pages) ELSE <<>>
    IN  IF chunks = <<>> THEN <<ErrorChunk(Message(f))>> ELSE chunks

\* Lines 280-313.
Assemble(f) ==
    LET chunks == RecordChunks(f)
    IN  [f EXCEPT !.pc = "done",
                  !.result =
                      [file_path |-> f.file_path,
                       extension |-> f.extension,
                       chunks |-> chunks,
                       page_count |-> Len(f.pages),
                       text_length |-> TextLength(chunks),
                       extraction |-> [method |-> f.extraction_method,
                                       used_ocr |-> f.ocr_used,
                                       errors |-> f.errors]]]

\* ------------------------------------------------------------------------
\* State.
\*   call     the function under execution: "clean_text", "chunk_pages" or
\*            "process_document"
\*   value    the argument of clean_text
\*   cleaned  the results of applying clean_text to value once, then again
\*   pages    the argument of chunk_pages
\*   ck       the frame of the call of chunk_pages
\*   meta     the argument of process_document
\*   pd       the frame of the call of process_document
\*   calls    the extractors process_document has invoked, in order
\*   ocr      the frame of the call of extract_pdf_ocr
\*   split    the frame of the call of find_split
\*   docx     the frame of the call of extract_docx_pages
\* ------------------------------------------------------------------------
VARIABLES call, value, cleaned, pages, ck, meta, pd, calls, ocr, split, docx

cleanVars == <<value, cleaned>>
chunkVars == <<pages, ck>>
docVars == <<meta, pd, calls>>
ocrVars == <<ocr>>
splitVars == <<split>>
docxVars == <<docx>>
vars == <<call, value, cleaned, pages, ck, meta, pd, calls, ocr, split, docx>>

\* ------------------------------------------------------------------------
\* Inputs.
\* ------------------------------------------------------------------------
\* The letter of the text of page k: the pages of a sequence are written
\* with different letters, so that a chunk shows the pages it was cut from.
Letters == <<"a", "b", "c", "d", "e", "f">>

\* The alphabet of clean_text's argument: an ordinary character, space, tab,
\* newline, carriage return, non-breaking space, a control character that
\* is no whitespace and one that is.
CleanChars == {"a", " ", "\t", "\n", "\r", NBSP, SOH, VT}

\* A page of whitespace only, which the chunker skips.
BlankPages == {<<" ">>, <<"\n">>}

\* TextShapes[n] are the raw texts of a page of exactly n characters, written
\* with the letter x: every text that clean_text leaves as it is, which
\* begins and ends with a letter unless it is empty, and the blank pages.
TextShapes ==
    [n \in 0..MaxTotalLen |->
        {s \in [1..n -> {"x", " ", "\n"}] :
            \/ s \in BlankPages
            \/ n = 0
            \/ s[1] = "x" /\ s[n] = "x" /\ clean_text(s) = s}]

\* PageTexts[k][n] are the same texts written with the letter of page k.
PageTexts ==
    [k \in 1..MaxPages |->
        [n \in 0..MaxTotalLen |->
            {[i \in 1..n |-> IF s[i] = "x" THEN Letters[k] ELSE s[i]] : s \in TextShapes[n]}]]

\* pages is prefix followed by pages k, k+1, ... (at most MaxPages in all)
\* whose lengths sum to at most budget.
RECURSIVE PagesFrom(_, _, _)
PagesFrom(k, budget, prefix) ==
    \/ pages = prefix
    \/ /\ k <= MaxPages
       /\ \E n \in 0..budget :
              \E s \in PageTexts[k][n] :
                  PagesFrom(k + 1, budget - n, Append(prefix, s))

Idle == [pc |-> "idle"]

InitClean ==
    /\ call = "clean_text"
    /\ value \in Str(CleanChars, MaxCleanLen)
    /\ cleaned = <<>>
    /\ pages = <<>>
    /\ ck = Idle
    /\ meta = Idle
    /\ pd = Idle
    /\ calls = <<>>
    /\ ocr = Idle
    /\ split = Idle
    /\ docx = Idle

InitChunk ==
    /\ call = "chunk_pages"
    /\ PagesFrom(1, MaxTotalLen, <<>>)
    /\ ck = ChunkerStart
    /\ value = <<>>
    /\ cleaned = <<>>
    /\ meta = Idle
    /\ pd = Idle
    /\ calls = <<>>
    /\ ocr = Idle
    /\ split = Idle
    /\ docx = Idle

\* A text of more than MAX_CHARS characters with one space in it.
LongText == [i \in 1..(MAX_CHARS + 2) |-> IF i = MIN_CHARS + 2 THEN " " ELSE "a"]

\* What the external programs write to their standard error.
Stderrs == {<<>>, <<" ">>, <<"e">>}

\* What pdftotext writes to its standard output.
PdfStdouts == Str({"a", " ", FF}, MaxOutLen) \cup {<<SOH>>, LongText}

PdftotextRuns ==
    [kind : {"ok"}, stdout : PdfStdouts, stderr : {<<>>}]
    \cup [kind : {"not_found"}, stdout : {<<>>}, stderr : {<<>>}]
    \cup [kind : {"failed"}, stdout : PdfStdouts, stderr : Stderrs]

\* What tesseract does on one image.
TesseractRuns ==
    [kind : {"ok"}, stdout : {<<>>, <<" ">>, <<"a">>, LongText}, stderr : {<<>>}]
    \cup [kind : {"not_found"}, stdout : {<<>>}, stderr : {<<>>}]
    \cup [kind : {"failed"}, stdout : {<<>>}, stderr : Stderrs]

OcrRuns ==
    [pdftoppm : {"not_found"}, stderr : {<<>>}, images : {0}, tesseract : {<<>>}]
    \cup [pdftoppm : {"failed"}, stderr : Stderrs, images : {0}, tesseract : {<<>>}]
    \cup UNION {[pdftoppm : {"ok"}, stderr : {<<>>}, images : {n},
                 tesseract : [1..n -> TesseractRuns]] : n \in 0..MaxImages}

\* The w:p elements of a document: the texts of the w:t nodes and the page
\* break of each.
Paragraphs ==
    [texts : {<<>>, << <<"a">> >>, << <<" ">> >>, << <<"a">>, <<"b">> >>},
     page_break : BOOLEAN]

DocxRuns ==
    [kind : {"not_found", "key_error", "read_error", "parse_error"}, paras : {<<>>}]
    \cup [kind : {"ok"}, paras : UNION {[1..n -> Paragraphs] : n \in 0..MaxParas}]

Metas ==
    [file_path : {None, "", "/kb/gone", "/kb/guide"},
     extension : {None, "", "pdf", "PDF", "docx", "doc", "rtf", "txt"}]

InitDoc ==
    /\ call = "process_document"
    /\ meta \in Metas
    /\ pd = ProcessStart(meta)
    /\ calls = <<>>
    /\ ocr = Idle
    /\ split = Idle
    /\ docx = Idle
    /\ value = <<>>
    /\ cleaned = <<>>
    /\ pages = <<>>
    /\ ck = Idle

\* The orders in which glob.glob can list n images.
GlobOrders(n) == {g \in [1..n -> 1..n] : \A i, j \in 1..n : g[i] = g[j] => i = j}

\* The runs of extract_pdf_ocr, each with the order of the listing.
GlobbedRuns ==
    {[pdftoppm |-> r.pdftoppm, stderr |-> r.stderr, images |-> r.images,
      tesseract |-> r.tesseract, globbed |-> g] :
        r \in OcrRuns, g \in UNION {GlobOrders(n) : n \in 0..MaxImages}}

InitOcr ==
    /\ call = "extract_pdf_ocr"
    /\ \E run \in GlobbedRuns :
           /\ Len(run.globbed) = run.images
           /\ ocr = OcrStart(run)
    /\ value = <<>>
    /\ cleaned = <<>>
    /\ pages = <<>>
    /\ ck = Idle
    /\ meta = Idle
    /\ pd = Idle
    /\ calls = <<>>
    /\ split = Idle
    /\ docx = Idle

\* The characters of the tokens of find_split that are no whitespace, and
\* the other characters of a window.
Punctuation == {".", ";", ":", ","}
Plain == {"a", " ", "\n"}

\* The sets of at most two places of a window.
Places == {Q \in SUBSET (1..MAX_CHARS) : Cardinality(Q) <= 2}

\* The window with punctuation f at the places P and the text g elsewhere.
Window(P, f, g) == [i \in 1..MAX_CHARS |-> IF i \in P THEN f[i] ELSE g[i]]

\* The windows are the texts of MAX_CHARS characters with punctuation at no
\* more than two places.
InitSplit ==
    /\ call = "find_split"
    /\ \E P \in Places :
           \E f \in [P -> Punctuation] :
               \E g \in [(1..MAX_CHARS) \ P -> Plain] :
                   split = [pc |-> "call", segment |-> Window(P, f, g), result |-> 0]
    /\ value = <<>>
    /\ cleaned = <<>>
    /\ pages = <<>>
    /\ ck = Idle
    /\ meta = Idle
    /\ pd = Idle
    /\ calls = <<>>
    /\ ocr = Idle
    /\ docx = Idle

\* The texts of the w:t nodes of the k-th paragraph of a document, written
\* with the letter of the paragraph.
LabelledTexts(k) ==
    {<<>>, << <<" ">> >>, << <<Letters[k]>> >>, << <<Letters[k]>>, <<Letters[k]>> >>,
     << <<" ", Letters[k]>>, <<" ">> >>}

\* The documents of n paragraphs.
LabelledParas(n) ==
    {paras \in [1..n -> [texts : UNION {LabelledTexts(k) : k \in 1..n},
                         page_break : BOOLEAN]] :
        \A k \in 1..n : paras[k].texts \in LabelledTexts(k)}

InitDocx ==
    /\ call = "extract_docx_pages"
    /\ \E n \in 0..MaxParas :
           \E paras \in LabelledParas(n) :
               docx = [pc |-> "call", run |-> [kind |-> "ok", paras |-> paras],
                       result |-> [pages |-> <<>>, error |-> None]]
    /\ value = <<>>
    /\ cleaned = <<>>
    /\ pages = <<>>
    /\ ck = Idle
    /\ meta = Idle
    /\ pd = Idle
    /\ calls = <<>>
    /\ ocr = Idle
    /\ split = Idle

\* ------------------------------------------------------------------------
\* Actions of clean_text: the normaliser is applied to value, then to its
\* own result.
\* ------------------------------------------------------------------------
CleanOnce ==
    /\ call = "clean_text"
    /\ cleaned = <<>>
    /\ cleaned' = <<clean_text(value)>>
    /\ UNCHANGED <<call, value, chunkVars, docVars, ocrVars, splitVars, docxVars>>

CleanAgain ==
    /\ call = "clean_text"
    /\ Len(cleaned) = 1
    /\ cleaned' = Append(cleaned, clean_text(cleaned[1]))
    /\ UNCHANGED <<call, value, chunkVars, docVars, ocrVars, splitVars, docxVars>>

NextClean == CleanOnce \/ CleanAgain

\* ------------------------------------------------------------------------
\* Actions of chunk_pages.
\* ------------------------------------------------------------------------
ForPageStep ==
    /\ call = "chunk_pages"
    /\ ck.pc = "for"
    /\ ck.page_number < Len(pages)
    /\ ck' = ForPage(ck, pages)
    /\ UNCHANGED <<call, pages, cleanVars, docVars, ocrVars, splitVars, docxVars>>

WhileBreakStep ==
    /\ call = "chunk_pages"
    /\ ck.pc = "while"
    /\ (ck.text = <<>> \/ Len(ck.text) <= MAX_CHARS)
    /\ ck' = WhileBreak(ck)
    /\ UNCHANGED <<call, pages, cleanVars, docVars, ocrVars, splitVars, docxVars>>

WhileSplitStep ==
    /\ call = "chunk_pages"
    /\ ck.pc = "while"
    /\ ck.text # <<>>
    /\ Len(ck.text) > MAX_CHARS
    /\ ck' = WhileSplit(ck)
    /\ UNCHANGED <<call, pages, cleanVars, docVars, ocrVars, splitVars, docxVars>>

AfterWhileStep ==
    /\ call = "chunk_pages"
    /\ ck.pc = "after"
    /\ ck' = AfterWhile(ck)
    /\ UNCHANGED <<call, pages, cleanVars, docVars, ocrVars, splitVars, docxVars>>

EndOfStreamStep ==
    /\ call = "chunk_pages"
    /\ ck.pc = "for"
    /\ ck.page_number >= Len(pages)
    /\ ck' = EndOfStream(ck, pages)
    /\ UNCHANGED <<call, pages, cleanVars, docVars, ocrVars, splitVars, docxVars>>

NextChunk ==
    \/ ForPageStep
    \/ WhileBreakStep
    \/ WhileSplitStep
    \/ AfterWhileStep
    \/ EndOfStreamStep

\* ------------------------------------------------------------------------
\* Actions of process_document.
\* ------------------------------------------------------------------------
MissingFileStep ==
    /\ call = "process_document"
    /\ pd.pc = "start"
    /\ FileMissing(pd.file_path)
    /\ pd' = MissingFile(pd)
    /\ UNCHANGED <<call, meta, calls, cleanVars, chunkVars, ocrVars, splitVars, docxVars>>

PdfTextStep ==
    /\ call = "process_document"
    /\ pd.pc = "start"
    /\ ~FileMissing(pd.file_path)
    /\ pd.extension = "pdf"
    /\ \E run \in PdftotextRuns : pd' = PdfTextStage(pd, extract_pdf_text(run))
    /\ calls' = Append(calls, "extract_pdf_text")
    /\ UNCHANGED <<call, meta, cleanVars, chunkVars, ocrVars, splitVars, docxVars>>

OcrStep ==
    /\ call = "process_document"
    /\ pd.pc = "ocr"
    /\ \E run \in OcrRuns : pd' = OcrStage(pd, extract_pdf_ocr(run))
    /\ calls' = Append(calls, "extract_pdf_ocr")
    /\ UNCHANGED <<call, meta, cleanVars, chunkVars, ocrVars, splitVars, docxVars>>

DocxStep ==
    /\ call = "process_document"
    /\ pd.pc = "start"
    /\ ~FileMissing(pd.file_path)
    /\ pd.extension = "docx"
    /\ \E run \in DocxRuns : pd' = DocxStage(pd, extract_docx_pages(run))
    /\ calls' = Append(calls, "extract_docx_pages")
    /\ UNCHANGED <<call, meta, cleanVars, chunkVars, ocrVars, splitVars, docxVars>>

UnsupportedStep ==
    /\ call = "process_document"
    /\ pd.pc = "start"
    /\ ~FileMissing(pd.file_path)
    /\ pd.extension \notin {"pdf", "docx"}
    /\ pd' = UnsupportedStage(pd)
    /\ UNCHANGED <<call, meta, calls, cleanVars, chunkVars, ocrVars, splitVars, docxVars>>

AssembleStep ==
    /\ call = "process_document"
    /\ pd.pc = "assemble"
    /\ pd' = Assemble(pd)
    /\ UNCHANGED <<call, meta, calls, cleanVars, chunkVars, ocrVars, splitVars, docxVars>>

NextDoc ==
    \/ MissingFileStep
    \/ PdfTextStep
    \/ OcrStep
    \/ DocxStep
    \/ UnsupportedStep
    \/ AssembleStep

\* ------------------------------------------------------------------------
\* Actions of extract_pdf_ocr.
\* ------------------------------------------------------------------------
OcrEnterStep ==
    /\ call = "extract_pdf_ocr"
    /\ ocr.pc = "enter"
    /\ ocr' = OcrEnter(ocr)
    /\ UNCHANGED <<call, cleanVars, chunkVars, docVars, splitVars, docxVars>>

OcrRasterizeStep ==
    /\ call = "extract_pdf_ocr"
    /\ ocr.pc = "pdftoppm"
    /\ ocr' = OcrRasterize(ocr)
    /\ UNCHANGED <<call, cleanVars, chunkVars, docVars, splitVars, docxVars>>

OcrRecognizeStep ==
    /\ call = "extract_pdf_ocr"
    /\ ocr.pc = "tesseract"
    /\ ocr' = OcrRecognize(ocr)
    /\ UNCHANGED <<call, cleanVars, chunkVars, docVars, splitVars, docxVars>>

OcrExitStep ==
    /\ call = "extract_pdf_ocr"
    /\ ocr.pc = "exit"
    /\ ocr' = OcrExit(ocr)
    /\ UNCHANGED <<call, cleanVars, chunkVars, docVars, splitVars, docxVars>>

NextOcr ==
    \/ OcrEnterStep
    \/ OcrRasterizeStep
    \/ OcrRecognizeStep
    \/ OcrExitStep

\* ------------------------------------------------------------------------
\* Action of find_split.
\* ------------------------------------------------------------------------
FindSplitStep ==
    /\ call = "find_split"
    /\ split.pc = "call"
    /\ split' = [split EXCEPT !.result = find_split(split.segment), !.pc = "done"]
    /\ UNCHANGED <<call, cleanVars, chunkVars, docVars, ocrVars, docxVars>>

NextSplit == FindSplitStep

\* ------------------------------------------------------------------------
\* Action of extract_docx_pages.
\* ------------------------------------------------------------------------
DocxExtractStep ==
    /\ call = "extract_docx_pages"
    /\ docx.pc = "call"
    /\ docx' = [docx EXCEPT !.result = extract_docx_pages(docx.run), !.pc = "done"]
    /\ UNCHANGED <<call, cleanVars, chunkVars, docVars, ocrVars, splitVars>>

NextDocx == DocxExtractStep

Init == InitClean \/ InitChunk \/ InitDoc \/ InitOcr \/ InitSplit \/ InitDocx
Next == NextClean \/ NextChunk \/ NextDoc \/ NextOcr \/ NextSplit \/ NextDocx

SpecClean == InitClean /\ [][NextClean]_vars
SpecChunk == InitChunk /\ [][NextChunk]_vars
SpecDoc == InitDoc /\ [][NextDoc]_vars
SpecOcr == InitOcr /\ [][NextOcr]_vars
SpecSplit == InitSplit /\ [][NextSplit]_vars
SpecDocx == InitDocx /\ [][NextDocx]_vars
Spec == Init /\ [][Next]_vars

\* ------------------------------------------------------------------------
\* Properties of chunk_pages.
\* ------------------------------------------------------------------------
\* The call has returned; ck.chunks is the returned list.
Returned == call = "chunk_pages" /\ ck.pc = "done"

\* The characters of s that are no whitespace, in order.
NonSpace(s) == SelectSeq(s, LAMBDA c : ~IsSpace(c))

\* The contents of the "ok" chunks, concatenated in chunk order.
RECURSIVE Contents(_)
Contents(chunks) ==
    IF chunks = <<>> THEN <<>>
    ELSE (IF Head(chunks).status = "ok" THEN Head(chunks).content ELSE <<>>)
         \o Contents(Tail(chunks))

\* The normalised pages, concatenated in page order.
RECURSIVE CleanPages(_)
CleanPages(ps) ==
    IF ps = <<>> THEN <<>> ELSE clean_text(Head(ps)) \o CleanPages(Tail(ps))

\* The pages whose letter occurs in content.
Contributors(content) ==
    {k \in 1..MaxPages : \E i \in 1..Len(content) : content[i] = Letters[k]}

\* The lowest-numbered page that contributed text to content.
FirstContributor(content) ==
    CHOOSE k \in Contributors(content) : \A j \in Contributors(content) : k <= j

\* C1: every returned chunk with status "ok" has at most MAX_CHARS characters
\* of content, the last chunk after the end-of-stream handling included.
C1_ChunkSizeBound ==
    Returned =>
        \A i \in 1..Len(ck.chunks) :
            ck.chunks[i].status = "ok" => Len(ck.chunks[i].content) <= MAX_CHARS

\* C2: no text is lost: the non-whitespace characters of the "ok" chunks, in
\* chunk order, are the non-whitespace characters of the normalised pages, in
\* page order.
C2_NoTextLoss ==
    Returned => NonSpace(Contents(ck.chunks)) = NonSpace(CleanPages(pages))

\* C3: the page_number of every returned chunk is the first page that
\* contributed text to the chunk's content.
C3_FirstContributingPage ==
    Returned =>
        \A i \in 1..Len(ck.chunks) :
            ck.chunks[i].page_number = FirstContributor(ck.chunks[i].content)

\* C4: every returned "ok" chunk other than the last of the list has at
\* least MIN_CHARS characters of content.
C4_MinimumSize ==
    Returned =>
        \A i \in 1..(Len(ck.chunks) - 1) :
            ck.chunks[i].status = "ok" => Len(ck.chunks[i].content) >= MIN_CHARS

\* A list of two or more chunks was returned whose first chunk is exactly
\* MIN_CHARS characters long.
C4_Witness ==
    /\ Returned
    /\ Len(ck.chunks) >= 2
    /\ Len(ck.chunks[1].content) = MIN_CHARS

\* C6: the page_number values of the returned chunks are non-decreasing in
\* chunk order.
C6_PageMonotonicity ==
    Returned =>
        \A i \in 1..(Len(ck.chunks) - 1) :
            ck.chunks[i].page_number <= ck.chunks[i + 1].page_number

\* A list was returned whose last chunk was built at the end of the stream
\* from text carried over, on a later page than the chunk before it.
C6_Witness ==
    /\ Returned
    /\ Len(ck.chunks) >= 2
    /\ ck.carry # <<>>
    /\ ck.chunks[Len(ck.chunks)].content = ck.carry
    /\ ck.chunks[Len(ck.chunks) - 1].page_number
           < ck.chunks[Len(ck.chunks)].page_number

\* C7: the chunk_index values of the N chunks of a returned list, and of the
\* chunk list of a document record, are 1, 2, ..., N in list order.
C7_IndexDensity ==
    /\ Returned =>
           \A i \in 1..Len(ck.chunks) : ck.chunks[i].chunk_index = i
    /\ (call = "process_document" /\ pd.pc = "done") =>
           \A i \in 1..Len(pd.result.chunks) : pd.result.chunks[i].chunk_index = i

\* A record was produced with two or more chunks, the last of which took up
\* the leftover at the end of the stream.
C7_Witness ==
    /\ call = "process_document"
    /\ pd.pc = "done"
    /\ Len(pd.result.chunks) >= 2
    /\ Len(pd.result.chunks[Len(pd.result.chunks)].content) > MAX_CHARS

\* ------------------------------------------------------------------------
\* Properties of clean_text.
\* ------------------------------------------------------------------------
\* C5: clean_text is idempotent: applied to its own result it returns that
\* result.
C5_Idempotent ==
    (call = "clean_text" /\ Len(cleaned) = 2) => cleaned[2] = cleaned[1]

\* ------------------------------------------------------------------------
\* Properties of process_document.
\* ------------------------------------------------------------------------
\* The call has returned; pd.result is the record.
Produced == call = "process_document" /\ pd.pc = "done"

\* C8: for an existing pdf file whose digital text has no non-whitespace
\* character, extract_pdf_ocr is invoked exactly once, after
\* extract_pdf_text; the record has used_ocr and method "tesseract" exactly
\* when the OCR returned a page, and neither otherwise.
C8_OcrFallback ==
    (/\ Produced
     /\ ~FileMissing(pd.file_path)
     /\ pd.extension = "pdf"
     /\ NonSpace(pd.text) = <<>>)
    => /\ calls = <<"extract_pdf_text", "extract_pdf_ocr">>
       /\ IF pd.pages # <<>>
          THEN /\ pd.result.extraction.used_ocr = TRUE
               /\ pd.result.extraction.method = "tesseract"
          ELSE /\ pd.result.extraction.used_ocr = FALSE
               /\ pd.result.extraction.method = None

\* A record of a pdf without digital text whose OCR returned pages.
C8_Witness ==
    /\ Produced
    /\ pd.extension = "pdf"
    /\ pd.text # <<>>
    /\ NonSpace(pd.text) = <<>>
    /\ pd.pdf_error # None
    /\ pd.result.extraction.used_ocr = TRUE

\* C9: a record with page_count 0 holds exactly one chunk, of status "error"
\* and chunk_index 1.
C9_NoPagesErrorChunk ==
    (Produced /\ pd.result.page_count = 0)
    => /\ Len(pd.result.chunks) = 1
       /\ pd.result.chunks[1].status = "error"
       /\ pd.result.chunks[1].chunk_index = 1

\* A record of a DOCX that was read without error and has no page.
C9_Witness ==
    /\ Produced
    /\ calls = <<"extract_docx_pages">>
    /\ DOMAIN pd.errors = {}
    /\ pd.result.page_count = 0

\* The entries of the errors mapping are never removed or changed.
ErrorsKept ==
    \A k \in DOMAIN pd.errors :
        k \in DOMAIN pd'.errors /\ pd'.errors[k] = pd.errors[k]

\* The record reports every entry of the errors mapping, the pdftotext
\* entry beside a successful OCR, and both entries when both stages fail.
ErrorsReported ==
    (Produced /\ ~FileMissing(pd.file_path))
    => /\ \A k \in DOMAIN pd.errors :
              /\ k \in DOMAIN pd.result.extraction.errors
              /\ pd.result.extraction.errors[k] = pd.errors[k]
       /\ (pd.pdf_error # None /\ calls = <<"extract_pdf_text", "extract_pdf_ocr">>
               /\ pd.pages # <<>>)
          => /\ pd.result.extraction.method = "tesseract"
             /\ "pdftotext" \in DOMAIN pd.result.extraction.errors
             /\ pd.result.extraction.errors["pdftotext"] = pd.pdf_error
       /\ (pd.pdf_error # None /\ pd.ocr_error # None)
          => /\ "pdftotext" \in DOMAIN pd.result.extraction.errors
             /\ pd.result.extraction.errors["pdftotext"] = pd.pdf_error
             /\ "ocr" \in DOMAIN pd.result.extraction.errors
             /\ pd.result.extraction.errors["ocr"] = pd.ocr_error

\* C10: errors accumulate: an entry recorded by a stage is never removed and
\* is in the errors of the final record.
C10_ErrorsAccumulate == [][ErrorsKept]_vars /\ []ErrorsReported

\* A record whose method is "tesseract" and whose errors hold the entry of
\* the failed pdftotext.
C10_Witness ==
    /\ Produced
    /\ pd.result.extraction.method = "tesseract"
    /\ "pdftotext" \in DOMAIN pd.result.extraction.errors
    /\ "pdftotext_detail" \in DOMAIN pd.result.extraction.errors

\* ------------------------------------------------------------------------
\* Properties of extract_pdf_ocr.
\* ------------------------------------------------------------------------
\* The call has returned; ocr.result is the returned triple.
OcrReturned == call = "extract_pdf_ocr" /\ ocr.pc = "done"

\* The call step by step returns what extract_pdf_ocr returns as a function
\* of the run.
OcrAgrees == OcrReturned => ocr.result = extract_pdf_ocr(ocr.run)

\* C11: when extract_pdf_ocr returns, the temporary directory it made no
\* longer exists, on every exit path.
C11_TempDirRemoved == OcrReturned => ocr.tmpdir = "removed"

\* The call returned after tesseract failed on the second image.
C11_Witness ==
    /\ OcrReturned
    /\ ocr.result.error = "tesseract_failed"
    /\ Len(ocr.attempted) = 2
    /\ ocr.tmpdir = "removed"

\* C12: the text_length of a record is the sum of the lengths of the
\* contents of its "ok" chunks, and 0 when the chunk list is the synthetic
\* error chunk.
C12_TextLength ==
    Produced =>
        /\ pd.result.text_length = Len(Contents(pd.result.chunks))
        /\ (Len(pd.result.chunks) = 1 /\ pd.result.chunks[1].status = "error")
               => pd.result.text_length = 0

\* A record of two or more "ok" chunks.
C12_Witness ==
    /\ Produced
    /\ Len(pd.result.chunks) >= 2
    /\ \A i \in 1..Len(pd.result.chunks) : pd.result.chunks[i].status = "ok"
    /\ pd.result.text_length > MAX_CHARS

\* C13: for an existing pdf file whose digital text has a non-whitespace
\* character, extract_pdf_ocr is never invoked, the method is "pdftotext"
\* and used_ocr is false; the pages are cut from that text, also when
\* pdftotext failed, and the error of pdftotext is then in the record.
C13_DigitalTextWins ==
    (/\ Produced
     /\ ~FileMissing(pd.file_path)
     /\ pd.extension = "pdf"
     /\ NonSpace(pd.text) # <<>>)
    => /\ calls = <<"extract_pdf_text">>
       /\ pd.result.extraction.method = "pdftotext"
       /\ pd.result.extraction.used_ocr = FALSE
       /\ pd.result.page_count >= 1
       /\ pd.result.page_count = Len(pd.pages)
       /\ NonSpace(Join(pd.pages, FF)) = NonSpace(pd.text)
       /\ pd.pdf_error # None
          => /\ "pdftotext" \in DOMAIN pd.result.extraction.errors
             /\ pd.result.extraction.errors["pdftotext"] = pd.pdf_error

\* A record made from the partial output of a pdftotext that failed.
C13_Witness ==
    /\ Produced
    /\ pd.pdf_error = "pdftotext_failed"
    /\ NonSpace(pd.text) # <<>>
    /\ pd.result.extraction.method = "pdftotext"
    /\ pd.result.page_count >= 1

\* The recognition of image k of the run under execution failed.
Failed(k) == ocr.run.tesseract[k].kind # "ok"

\* C14: the OCR is fail-fast.  The images are recognised one at a time in
\* the order of their names; once the recognition of an image has failed no
\* further image is attempted, and the call returns no page and an error
\* kind; pages are returned only when every image was recognised, one page
\* per image in that order.
C14_FailFast ==
    call = "extract_pdf_ocr" =>
        /\ \A i \in 1..Len(ocr.attempted) :
               /\ ocr.attempted[i] = i
               /\ Failed(i) => i = Len(ocr.attempted)
        /\ ocr.pc = "done" =>
               /\ (\E i \in 1..Len(ocr.attempted) : Failed(i))
                      => ocr.result.pages = <<>> /\ ocr.result.error # None
               /\ ocr.result.pages # <<>>
                      => /\ Len(ocr.attempted) = ocr.run.images
                         /\ Len(ocr.result.pages) = ocr.run.images
                         /\ \A i \in 1..ocr.run.images :
                                /\ ~Failed(i)
                                /\ ocr.result.pages[i] = ocr.run.tesseract[i].stdout

\* The call returned after the first of several images, listed out of
\* order, failed and the others would have been recognised.
C14_Witness ==
    /\ OcrReturned
    /\ ocr.run.images >= 2
    /\ ocr.run.globbed[1] # 1
    /\ ocr.attempted = <<1>>
    /\ Failed(1)
    /\ \A i \in 2..ocr.run.images : ~Failed(i)
    /\ ocr.result.pages = <<>>

\* C15: an extractor is invoked only for a file that exists and whose
\* extension is pdf or docx.  The record of a path that is absent or names
\* no file has no method, page_count 0 and the single error chunk; the
\* record of an existing file of another extension has no page, no method
\* and the unsupported entry among its errors.
C15_ExtractorGuard ==
    call = "process_document" =>
        /\ calls # <<>> =>
               /\ meta.file_path \in FileSystem
               /\ pd.extension \in {"pdf", "docx"}
        /\ (pd.pc = "done" /\ meta.file_path \notin FileSystem) =>
               /\ calls = <<>>
               /\ pd.result.extraction.method = None
               /\ pd.result.page_count = 0
               /\ Len(pd.result.chunks) = 1
               /\ pd.result.chunks[1].status = "error"
        /\ (pd.pc = "done" /\ meta.file_path \in FileSystem
                /\ pd.extension \notin {"pdf", "docx"}) =>
               /\ calls = <<>>
               /\ pd.pages = <<>>
               /\ pd.result.page_count = 0
               /\ pd.result.extraction.method = None
               /\ "unsupported" \in DOMAIN pd.result.extraction.errors

\* The record of an existing file without extension.
C15_Witness ==
    /\ Produced
    /\ calls = <<>>
    /\ meta.file_path \in FileSystem
    /\ pd.extension = ""
    /\ "unsupported" \in DOMAIN pd.result.extraction.errors

\* ------------------------------------------------------------------------
\* Properties of the steps of chunk_pages.
\* ------------------------------------------------------------------------
\* The call is at the end of the stream with a leftover carry.
AtEndWithLeftover ==
    /\ call = "chunk_pages"
    /\ ck.pc = "for"
    /\ ck.page_number >= Len(pages)
    /\ Strip(ck.carry) # <<>>

\* The step at the end of the stream leaves the chunks as C16 says, the
\* page of a new final chunk apart.
EndOfStreamShape ==
    LET leftover == Strip(ck.carry)
        n == Len(ck.chunks)
    IN  IF n >= 1 /\ Len(leftover) < MIN_CHARS
        THEN /\ Len(ck'.chunks) = n
             /\ ck'.chunks[n].content =
                    ck.chunks[n].content \o <<"\n", "\n">> \o leftover
        ELSE /\ Len(ck'.chunks) = n + 1
             /\ SubSeq(ck'.chunks, 1, n) = ck.chunks
             /\ ck'.chunks[n + 1].content = leftover

\* The new final chunk, if one is made, is on the page its text came from.
EndOfStreamPage ==
    LET leftover == Strip(ck.carry)
        n == Len(ck.chunks)
    IN  Len(ck'.chunks) = n + 1
            => ck'.chunks[n + 1].page_number = FirstContributor(leftover)

\* C16: at the end of the stream a non-empty leftover shorter than MIN_CHARS
\* is appended, behind a blank line, to the last chunk when there is one, and
\* the number of chunks is unchanged; otherwise exactly one final chunk is
\* appended, whose content is the leftover and whose page_number is the page
\* the leftover came from.
C16_EndOfStream ==
    [][AtEndWithLeftover => (EndOfStreamShape /\ EndOfStreamPage)]_vars

\* The part of C16 that is about the number and the contents of the chunks.
C16_ShapeOnly == [][AtEndWithLeftover => EndOfStreamShape]_vars

\* A chunk committed before the step is in its place after the step, with
\* its index, page and status; its content is as it was, or the chunk is the
\* last one and the step, the last of the call, has appended the leftover
\* to it.
ChunksKept ==
    /\ Len(ck'.chunks) >= Len(ck.chunks)
    /\ \A i \in 1..Len(ck.chunks) :
           /\ ck'.chunks[i].chunk_index = ck.chunks[i].chunk_index
           /\ ck'.chunks[i].page_number = ck.chunks[i].page_number
           /\ ck'.chunks[i].status = ck.chunks[i].status
           /\ \/ ck'.chunks[i].content = ck.chunks[i].content
              \/ /\ i = Len(ck.chunks)
                 /\ Len(ck'.chunks) = Len(ck.chunks)
                 /\ AtEndWithLeftover
                 /\ ck'.pc = "done"
                 /\ ck'.chunks[i].content =
                        ck.chunks[i].content \o <<"\n", "\n">> \o Strip(ck.carry)

\* C17: the committed chunks are append-only: no step of chunk_pages removes
\* or reorders a chunk or changes its chunk_index, page_number or status, and
\* the only change of a content is the leftover appended to the last chunk at
\* the end of the stream.
C17_AppendOnly == [][call = "chunk_pages" => ChunksKept]_vars

\* The call returned with the leftover appended to the last of its chunks.
C17_Witness ==
    /\ Returned
    /\ ck.chunks # <<>>
    /\ Strip(ck.carry) # <<>>
    /\ Len(Strip(ck.carry)) < MIN_CHARS
    /\ Len(ck.chunks[Len(ck.chunks)].content) >= MIN_CHARS + 2 + Len(Strip(ck.carry))

\* ------------------------------------------------------------------------
\* Properties of find_split.
\* ------------------------------------------------------------------------
\* The kinds of split point in the order of their priority: paragraph
\* break, line break, ". ", "; ", ": ", ", " and space.
Priority ==
    << <<"\n", "\n">>, <<"\n">>, <<".", " ">>, <<";", " ">>, <<":", " ">>,
       <<",", " ">>, <<" ">> >>

\* The 0-based places from MIN_CHARS on at which token lies wholly inside
\* the window of MAX_CHARS characters of segment.
Candidates(segment, token) ==
    {i \in MIN_CHARS..(MAX_CHARS - Len(token)) :
        \A j \in 1..Len(token) : segment[i + j] = token[j]}

\* The kinds that have such a place.
Qualifying(segment) ==
    {k \in 1..Len(Priority) : Candidates(segment, Priority[k]) # {}}

\* C18: find_split on a window of MAX_CHARS characters returns a position p
\* with MIN_CHARS < p <= MAX_CHARS: the end of the rightmost occurrence, at
\* MIN_CHARS or later and wholly inside the window, of the first kind in
\* priority order that has such an occurrence, and MAX_CHARS when no kind
\* has one.
C18_FindSplit ==
    (call = "find_split" /\ split.pc = "done") =>
        LET q == Qualifying(split.segment)
            p == split.result
        IN  /\ MIN_CHARS < p
            /\ p <= MAX_CHARS
            /\ IF q = {} THEN p = MAX_CHARS
               ELSE LET k == CHOOSE k \in q : \A h \in q : k <= h
                        c == Candidates(split.segment, Priority[k])
                        i == CHOOSE i \in c : \A j \in c : j <= i
                    IN  p = i + Len(Priority[k])

\* find_split returned the end of a ", " although the window holds a line
\* break, which lies before MIN_CHARS.
C18_Witness ==
    /\ call = "find_split"
    /\ split.pc = "done"
    /\ split.segment[1] = "\n"
    /\ Qualifying(split.segment) = {6, 7}
    /\ split.result < MAX_CHARS

\* ------------------------------------------------------------------------
\* Properties of extract_docx_pages.
\* ------------------------------------------------------------------------
DocxReturned == call = "extract_docx_pages" /\ docx.pc = "done"

\* The text of the k-th paragraph of the document.
ParaText(k) == Strip(Join(docx.run.paras[k].texts, " "))

\* The paragraphs that have text, and those that carry a page break.
NonEmptyParas == {k \in 1..Len(docx.run.paras) : ParaText(k) # <<>>}
BreakParas == {k \in 1..Len(docx.run.paras) : docx.run.paras[k].page_break}

\* The unit between page breaks the k-th paragraph lies in; a paragraph
\* that carries a break lies in the unit the break closes.
UnitOf(k) == 1 + Cardinality({b \in BreakParas : b < k})

\* The returned pages in which the text of the k-th paragraph appears.
Holders(k) ==
    {p \in 1..Len(docx.result.pages) :
        \E i \in 1..Len(docx.result.pages[p]) : docx.result.pages[p][i] = Letters[k]}

Holder(k) == CHOOSE p \in Holders(k) : TRUE

\* The texts of the paragraphs of page p, in document order.
ParasOf(p) ==
    LET ks == SelectSeq([k \in 1..Len(docx.run.paras) |-> k],
                        LAMBDA k : k \in NonEmptyParas /\ Holder(k) = p)
    IN  [i \in 1..Len(ks) |-> ParaText(ks[i])]

\* C19: of a DOCX that was parsed, every returned page is non-empty; there
\* are at most one more pages than page breaks; the text of every non-empty
\* paragraph is in exactly one page, paragraphs of the same unit between
\* page breaks in the same page and later units in later pages, a paragraph
\* that carries a break in the page the break closes; a page is the texts
\* of its paragraphs in document order; without a page break the non-empty
\* paragraphs make exactly one page.
C19_DocxPages ==
    DocxReturned =>
        /\ \A p \in 1..Len(docx.result.pages) : docx.result.pages[p] # <<>>
        /\ Len(docx.result.pages) <= Cardinality(BreakParas) + 1
        /\ \A k \in NonEmptyParas : Cardinality(Holders(k)) = 1
        /\ \A k, l \in NonEmptyParas :
               k < l => /\ Holder(k) <= Holder(l)
                        /\ Holder(k) = Holder(l) <=> UnitOf(k) = UnitOf(l)
        /\ \A p \in 1..Len(docx.result.pages) :
               docx.result.pages[p] = Join(ParasOf(p), "\n")
        /\ (BreakParas = {} /\ NonEmptyParas # {}) => Len(docx.result.pages) = 1

\* Two pages were returned of three paragraphs with text, the second of
\* which carries the only page break.
C19_Witness ==
    /\ DocxReturned
    /\ NonEmptyParas = {1, 2, 3}
    /\ BreakParas = {2}
    /\ Len(docx.result.pages) = 2
    /\ Holder(2) = 1

\* ------------------------------------------------------------------------
\* Termination of chunk_pages.
\* ------------------------------------------------------------------------
\* A bound on the length of the working text: the pages and the blank lines
\* between them.
TextBound == MaxTotalLen + 2 * MaxPages

\* A natural number that bounds the steps the call has left: the pages not
\* yet taken count most, then the position in the page, where the while
\* loop counts by the length of its working text.
Rank(f) ==
    (Len(pages) - f.page_number) * (TextBound + 3)
    + CASE f.pc = "while" -> 2 + Len(f.text)
        [] f.pc = "after" -> 2
        [] f.pc = "for" -> 1
        [] f.pc = "done" -> 0

\* The step from frame ck to frame next lowers the rank, so the call
\* returns.
RankFalls(next) ==
    ck.pc # "done" => /\ Rank(next) < Rank(ck)
                      /\ Rank(next) >= 0
                      /\ Len(ck.text) <= TextBound

\* An iteration of the while loop that does not break leaves a shorter
\* working text.
TextShrinks(next) ==
    (ck.pc = "while" /\ next.pc = "while") => Len(next.text) < Len(ck.text)

\* The working text is not empty inside the while loop.
TextNotEmpty == ck.pc = "while" => ck.text # <<>>

\* Behind the while loop the carry is the rest of the working text, which
\* is not empty and fits.
CarryIsRest ==
    ck.pc = "after" => /\ ck.carry = ck.text
                       /\ ck.carry # <<>>
                       /\ Len(ck.carry) <= MAX_CHARS

\* C20: chunk_pages terminates: every step of the call lowers a rank that
\* is a natural number; every iteration of the while loop that does not
\* break, the empty piece and the piece held back included, shortens the
\* working text; the working text is never empty inside the loop, which is
\* left through the branch of the text that fits with the carry the
\* non-empty rest of the working text.
C20_Terminates ==
    call = "chunk_pages" =>
        LET next == ChunkerStep(ck, pages)
        IN  /\ RankFalls(next)
            /\ TextShrinks(next)
            /\ TextNotEmpty
            /\ CarryIsRest

\* The while loop has held back a piece and goes on with a working text that
\* is still too long.
C20_Witness ==
    /\ call = "chunk_pages"
    /\ ck.pc = "while"
    /\ ck.chunks = <<>>
    /\ ck.carry # <<>>
    /\ Len(ck.text) > MAX_CHARS

====
